---- MODULE Spec2Model ----
(***************************************************************************)
(* Voice_DJ (src/main.py): the voice-activated music assistant.            *)
(*                                                                         *)
(* main() is modelled as one sequential process whose position is pc.      *)
(* Every blocking call of the program (a stream read, a service call, a    *)
(* teardown call) is one step, so that an exception or a KeyboardInterrupt *)
(* can arrive between any two of them.  The microphone, the recogniser,    *)
(* the transcription service and the music service are the environment:    *)
(* what they return is drawn from small sets.                              *)
(***************************************************************************)
EXTENDS Integers, Sequences, FiniteSets, TLC

VARIABLES
    pc,          \* position of main()
    WAKE_WORD,   \* the configured wake word (line 20)
    seconds,     \* record_phrase's duration argument
    stream,      \* the pyaudio stream: "none", "open", "stopped", "closed"
    audio,       \* the PyAudio instance: "none", "up", "terminated"
    teardown,    \* how often stop_stream, close and terminate were called
    fin,         \* next statement of main's finally block
    exc,         \* the exception in flight in main(), "none" when there is none
    raisedIn,    \* the stage in which an exception reached main(), or "none"
    failedAt,    \* the position at which that exception was raised, or "none"
    interrupted, \* a KeyboardInterrupt has been delivered
    partial,     \* length of the recogniser's partial hypothesis
    heard,       \* what the last iteration of listen_for_wake_word saw and did
                 \* (its locals; gone once record_phrase runs)
    waited,      \* frames the current call of listen_for_wake_word has read
    reads,       \* number of frames read from the stream so far
    frames,      \* record_phrase's local list of frames
    data,        \* main's data: the buffer record_phrase returned
    tempfile,    \* transcribe's temporary file: "none", "exists", "removed"
    transcript,  \* the text the transcription service answered
    text,        \* main's text: what transcribe returned
    results,     \* search_and_play's results: the uris sp.search answered
    track,       \* search_and_play's track (its uri)
    devices,     \* search_and_play's devices: what sp.devices answered
    device_id,   \* search_and_play's device_id
    played,      \* the playback started by the current search_and_play call
    outcome,     \* which path the last search_and_play call took
    result,      \* what the last search_and_play call returned
    cycles,      \* completed cycles of the main loop
    calls,       \* calls made to the hosted services in the current cycle
    fed,         \* the frames given to the recogniser (AcceptWaveform)
    captured,    \* the frames appended to a command buffer by record_phrase
    produced,    \* the texts transcribe has returned, in order
    consumed,    \* the queries search_and_play has been called with, in order
    notice       \* the message main printed before returning from setup

vars == <<pc, WAKE_WORD, seconds, stream, audio, teardown, fin, exc, raisedIn,
          failedAt, interrupted, partial, heard, waited, reads, frames, data,
          tempfile, transcript, text, results, track, devices, device_id,
          played, outcome, result, cycles, calls, fed, captured, produced,
          consumed, notice>>

----------------------------------------------------------------------------
(* Bounds of the model *)

\* Cycles of the main loop that are begun in one run.
MaxCycles == 2

\* Frames one call of listen_for_wake_word waits for the wake word.
MaxListen == 2

\* Longest finalized utterance the recogniser reports, in characters.
MaxTextLen == 2

\* Longest duration given to record_phrase when it is checked on its own.
MaxSeconds == 6

(* Program constants *)

SampleRate == 16000
FrameSize == 4000
SampleWidth == 2
DefaultSeconds == 5
PartialLimit == 100

\* PartialResult() answers a JSON document, {"partial" : "<hypothesis>"}, as
\* Result() does (line 111 parses it); the document is this much longer than
\* the hypothesis it carries.
PartialWrapLen == 20

----------------------------------------------------------------------------
(* Strings are sequences of characters *)

Alphabet == {"a", "A", "b"}

Texts == UNION {[1..n -> Alphabet] : n \in 0..MaxTextLen}

WakeWords == {<<"a", "b">>, <<"A", "b">>}

\* str.lower() on one character
LowerChar(c) == IF c = "A" THEN "a" ELSE c

\* str.lower()
LowerStr(s) == [i \in 1..Len(s) |-> LowerChar(s[i])]

\* w in s
Contains(w, s) ==
    \E i \in 0..(Len(s) - Len(w)) :
        \A j \in 1..Len(w) : s[i + j] = w[j]

\* str.strip()
RECURSIVE StripLeft(_)
StripLeft(s) ==
    IF s # <<>> /\ Head(s) = " " THEN StripLeft(Tail(s)) ELSE s

RECURSIVE StripRight(_)
StripRight(s) ==
    IF s # <<>> /\ s[Len(s)] = " "
    THEN StripRight(SubSeq(s, 1, Len(s) - 1)) ELSE s

Strip(s) == StripRight(StripLeft(s))

----------------------------------------------------------------------------
(* Control flow of main() *)

SetupPcs == {"check_model", "load_model", "init_spotify", "init_audio",
             "open_stream", "make_recognizer", "announce"}

TranscribePcs == {"transcribe_write", "transcribe_call", "transcribe_finish"}

ExecutePcs == {"search", "devices", "start_playback"}

LoopPcs == {"listen", "record"} \cup TranscribePcs \cup ExecutePcs

BothHoldWhileRecording(p) ==
    CASE p = "listen" -> {"listen_for_wake_word"}
      [] p = "record" -> {"listen_for_wake_word", "record_phrase"}
      [] OTHER -> {}

\* Lines 162, 164: the functions main has handed the stream to and that have
\* not returned yet; transcribe (165) and search_and_play (167) get no stream.
StreamHolders(p) ==
    CASE p = "listen" -> {"listen_for_wake_word"}
      [] p = "record" -> {"record_phrase"}
      [] OTHER -> {}

\* The state of the main loop (spec 4.6) a position belongs to.
Stage(p) ==
    CASE p \in SetupPcs -> "INIT"
      [] p = "listen" -> "LISTENING"
      [] p = "record" -> "RECORDING"
      [] p \in TranscribePcs -> "TRANSCRIBING"
      [] p \in ExecutePcs -> "EXECUTING"
      [] p \in {"handler", "finally"} -> "SHUTTING_DOWN"
      [] OTHER -> "TERMINATED"

\* Lines 142-158: the statement that follows a setup statement.
AfterSetup(p) ==
    CASE p = "check_model" -> "load_model"
      [] p = "load_model" -> "init_spotify"
      [] p = "init_spotify" -> "init_audio"
      [] p = "init_audio" -> "open_stream"
      [] p = "open_stream" -> "make_recognizer"
      [] p = "make_recognizer" -> "announce"
      [] OTHER -> "listen"

SkipRecordAfterCall(s) ==
    CASE s = "LISTENING" -> "transcribe_write"
      [] s = "RECORDING" -> "transcribe_write"
      [] s = "TRANSCRIBING" -> "search"
      [] OTHER -> "listen"

RetryAfterCall(s) ==
    CASE s = "LISTENING" -> "record"
      [] s = "RECORDING" -> "transcribe_write"
      [] s = "TRANSCRIBING" -> "search"
      [] OTHER -> "search"

\* Lines 161-167: where the loop body goes when the call of stage s returns.
AfterCall(s) ==
    CASE s = "LISTENING" -> "record"
      [] s = "RECORDING" -> "transcribe_write"
      [] s = "TRANSCRIBING" -> "search"
      [] OTHER -> "listen"

\* Line 168: except KeyboardInterrupt.
MainCatches(e) == e = "KeyboardInterrupt"

CatchesNothing(e) == FALSE

CatchesBaseException(e) == e \in {"Exception", "KeyboardInterrupt"}

\* Line 64: except Exception.  KeyboardInterrupt derives from BaseException
\* and is not an Exception.
SearchAndPlayCatches(e) == e = "Exception"

NoFinallyAfterRaise(e) == IF MainCatches(e) THEN "handler" ELSE "exited"

\* Lines 160-170: an exception leaving the loop body runs the handler when
\* the except clause matches it, and the finally block in every case.
AfterRaise(e) == IF MainCatches(e) THEN "handler" ELSE "finally"

FinallyWithoutTerminate == <<"stop_stream", "close">>

\* Lines 171-173: the finally block.
FinallySteps == <<"stop_stream", "close", "terminate">>

TeardownOps == {"stop_stream", "close", "terminate"}

----------------------------------------------------------------------------
(* The recogniser, as listen_for_wake_word uses it *)

\* Growth of the partial hypothesis over one frame, in characters.
PartialSteps == {0, 45, 60}

\* Line 112: WAKE_WORD in result.lower()
WakeWordIn(t) == Contains(WAKE_WORD, LowerStr(t))

\* Line 115: len(recognizer.PartialResult()) for a hypothesis of h characters.
PartialResultLen(h) == h + PartialWrapLen

NeverNeedsReset(h) == FALSE

\* Line 116: partial and len(partial) > 100
NeedsReset(h) == PartialResultLen(h) # 0 /\ PartialResultLen(h) > PartialLimit

\* heard before the first frame.
NoFrame == [final |-> FALSE, text |-> <<>>, hyp |-> 0,
            reset |-> FALSE, returned |-> FALSE]

----------------------------------------------------------------------------
(* record_phrase *)

ShortFrameCount(d) == (SampleRate \div FrameSize) * d - 1

\* Line 30: int(16000/4000 * seconds)
FrameCount(d) == (SampleRate \div FrameSize) * d

\* Bytes in a buffer of frames of 4000 16-bit samples.
ByteLen(buf) == Len(buf) * FrameSize * SampleWidth

----------------------------------------------------------------------------
(* State groups *)

cfgVars == <<WAKE_WORD, seconds>>
resVars == <<stream, audio, teardown, fin>>
excVars == <<exc, raisedIn, failedAt, interrupted>>
recogVars == <<partial, heard, waited>>
recVars == <<frames, data>>
trVars == <<tempfile, transcript, text>>
spVars == <<results, track, devices, device_id, played, outcome, result>>
logVars == <<calls, fed, captured, produced, consumed, notice>>

\* The hosted calls of one cycle: the transcription service (line 97) and
\* the three music service calls (lines 47, 50, 54).
Services == {"transcription", "search", "devices", "start_playback"}

NoCalls == [s \in Services |-> 0]

\* One more call of service s in this cycle.
Called(s) == [calls EXCEPT ![s] = @ + 1]

\* devices before sp.devices has answered.
NotAsked == [none |-> TRUE, devices |-> <<>>]

Init ==
    /\ pc = "check_model"
    /\ WAKE_WORD \in WakeWords
    /\ seconds = DefaultSeconds
    /\ stream = "none"
    /\ audio = "none"
    /\ teardown = [op \in TeardownOps |-> 0]
    /\ fin = 1
    /\ exc = "none"
    /\ raisedIn = "none"
    /\ failedAt = "none"
    /\ interrupted = FALSE
    /\ partial = 0
    /\ heard = NoFrame
    /\ waited = 0
    /\ reads = 0
    /\ frames = <<>>
    /\ data = <<>>
    /\ tempfile = "none"
    /\ transcript = <<>>
    /\ text = <<>>
    /\ results = <<>>
    /\ track = ""
    /\ devices = NotAsked
    /\ device_id = ""
    /\ played = <<>>
    /\ outcome = "none"
    /\ result = "unset"
    /\ cycles = 0
    /\ calls = NoCalls
    /\ fed = {}
    /\ captured = {}
    /\ produced = <<>>
    /\ consumed = <<>>
    /\ notice = "none"

----------------------------------------------------------------------------
(* Setup, lines 142-158 *)

\* Lines 142-144: without the model directory main prints and returns.
CheckModel ==
    /\ pc = "check_model"
    /\ \/ /\ pc' = AfterSetup(pc)
          /\ notice' = notice
       \/ /\ notice' = "model_missing"
          /\ pc' = "exited"
    /\ UNCHANGED <<calls, fed, captured, produced, consumed, cfgVars, resVars,
                   excVars, recogVars, reads, recVars, trVars, spVars,
                   cycles>>

\* Lines 147-148: what init_spotify_client hands to main, as main tests it:
\* a client, or a value that is false.
ClientsReturned == {"client", "none"}

\* Lines 147-149: the client is made; main returns, printing nothing, if it
\* is false.
InitSpotify ==
    /\ pc = "init_spotify"
    /\ \E c \in ClientsReturned :
          pc' = IF c = "none" THEN "exited" ELSE AfterSetup(pc)
    /\ UNCHANGED <<logVars, cfgVars, resVars, excVars, recogVars, reads,
                   recVars, trVars, spVars, cycles>>

\* Lines 146, 156, 158.
SetupStep ==
    /\ pc \in {"load_model", "make_recognizer", "announce"}
    /\ pc' = AfterSetup(pc)
    /\ UNCHANGED <<logVars, cfgVars, resVars, excVars, recogVars, reads,
                   recVars, trVars, spVars, cycles>>

\* Line 150: audio = pyaudio.PyAudio()
InitAudio ==
    /\ pc = "init_audio"
    /\ audio' = "up"
    /\ pc' = AfterSetup(pc)
    /\ UNCHANGED <<logVars, cfgVars, stream, teardown, fin, excVars,
                   recogVars, reads, recVars, trVars, spVars, cycles>>

\* Lines 151-155: stream = audio.open(...)
OpenStream ==
    /\ pc = "open_stream"
    /\ stream' = "open"
    /\ pc' = AfterSetup(pc)
    /\ UNCHANGED <<logVars, cfgVars, audio, teardown, fin, excVars, recogVars,
                   reads, recVars, trVars, spVars, cycles>>

\* A setup call raises, or the interrupt arrives during setup: no try block
\* encloses lines 142-158, so the exception leaves main().
SetupRaise ==
    /\ pc \in SetupPcs \ {"check_model"}
    /\ \E e \in {"Exception", "KeyboardInterrupt"} :
          /\ exc' = e
          /\ interrupted' = (e = "KeyboardInterrupt")
    /\ raisedIn' = Stage(pc)
    /\ failedAt' = pc
    /\ pc' = "exited"
    /\ UNCHANGED <<logVars, cfgVars, resVars, recogVars, reads, recVars,
                   trVars, spVars, cycles>>

----------------------------------------------------------------------------
(* Exceptions in the loop body, lines 160-173 *)

\* e leaves the call of the current stage and reaches main's try statement.
RaiseInLoop(e) ==
    /\ exc' = e
    /\ raisedIn' = Stage(pc)
    /\ failedAt' = pc
    /\ pc' = AfterRaise(e)

\* Lines 168-169: the handler prints and the exception is done with.
Handler ==
    /\ pc = "handler"
    /\ exc' = "none"
    /\ pc' = "finally"
    /\ UNCHANGED <<logVars, cfgVars, resVars, raisedIn, failedAt, interrupted,
                   recogVars, reads, recVars, trVars, spVars, cycles>>

\* Lines 170-173: one statement of the finally block.
FinallyStep ==
    /\ pc = "finally"
    /\ fin <= Len(FinallySteps)
    /\ LET op == FinallySteps[fin] IN
          /\ teardown' = [teardown EXCEPT ![op] = @ + 1]
          /\ stream' = CASE op = "stop_stream" -> "stopped"
                         [] op = "close" -> "closed"
                         [] OTHER -> stream
          /\ audio' = IF op = "terminate" THEN "terminated" ELSE audio
    /\ fin' = fin + 1
    /\ pc' = IF fin = Len(FinallySteps) THEN "exited" ELSE "finally"
    /\ UNCHANGED <<logVars, cfgVars, excVars, recogVars, reads, recVars,
                   trVars, spVars, cycles>>

----------------------------------------------------------------------------
(* listen_for_wake_word, lines 106-118: one iteration of its loop *)

SkipFeed(S, f) == S

\* Line 110: recognizer.AcceptWaveform(data)
FeedFrame(S, f) == S \cup {f}

\* The frame read is given to the recogniser.  When the detector returns the
\* command part of the cycle begins, with no hosted call made yet.
ListenFrame ==
    /\ "listen_for_wake_word" \in StreamHolders(pc)
    /\ cycles < MaxCycles
    /\ waited < MaxListen
    /\ reads' = reads + 1
    /\ fed' = FeedFrame(fed, reads + 1)
    /\ \/ \* AcceptWaveform is true: an utterance is finalized and a new one
          \* begins, with an empty partial hypothesis.
          \E t \in Texts :
             IF WakeWordIn(t)
             THEN /\ heard' = [final |-> TRUE, text |-> t, hyp |-> 0,
                               reset |-> FALSE, returned |-> TRUE]
                  /\ partial' = 0
                  /\ waited' = 0
                  /\ calls' = NoCalls
                  /\ pc' = AfterCall("LISTENING")
             ELSE /\ heard' = [final |-> TRUE, text |-> t, hyp |-> 0,
                               reset |-> NeedsReset(0), returned |-> FALSE]
                  /\ partial' = 0
                  /\ waited' = waited + 1
                  /\ calls' = calls
                  /\ pc' = "listen"
       \/ \* AcceptWaveform is false: the utterance goes on.
          \E inc \in PartialSteps :
             LET h == partial + inc IN
             /\ heard' = [final |-> FALSE, text |-> <<>>, hyp |-> h,
                          reset |-> NeedsReset(h), returned |-> FALSE]
             /\ partial' = IF NeedsReset(h) THEN 0 ELSE h
             /\ waited' = waited + 1
             /\ calls' = calls
             /\ pc' = "listen"
    /\ UNCHANGED <<captured, produced, consumed, notice, cfgVars, resVars,
                   excVars, recVars, trVars, spVars, cycles>>

\* Line 109: stream.read raises.
ListenFail ==
    /\ pc = "listen"
    /\ RaiseInLoop("Exception")
    /\ UNCHANGED <<logVars, cfgVars, resVars, interrupted, recogVars, reads,
                   recVars, trVars, spVars, cycles>>

----------------------------------------------------------------------------
(* record_phrase, lines 27-33: one iteration of its loop, and the return *)

Range(fs) == {fs[i] : i \in 1..Len(fs)}

AppendAfterWakeFrame(fs, f) == IF fs = <<>> THEN <<f - 1, f>> ELSE Append(fs, f)

\* Line 32: frames.append(data)
AppendFrame(fs, f) == Append(fs, f)

RecordRead ==
    /\ "record_phrase" \in StreamHolders(pc)
    /\ Len(frames) < FrameCount(seconds)
    /\ reads' = reads + 1
    /\ LET got == AppendFrame(frames, reads + 1) IN
          /\ captured' = captured \cup Range(got)
          /\ IF Len(got) = FrameCount(seconds)
             THEN /\ data' = got
                  /\ frames' = <<>>
                  /\ pc' = AfterCall("RECORDING")
             ELSE /\ frames' = got
                  /\ data' = data
                  /\ pc' = "record"
    /\ heard' = NoFrame
    /\ UNCHANGED <<calls, fed, produced, consumed, notice, cfgVars, resVars,
                   excVars, partial, waited, trVars, spVars, cycles>>

\* Line 31: stream.read raises; record_phrase has no handler.
RecordFail ==
    /\ pc = "record"
    /\ RaiseInLoop("Exception")
    /\ frames' = <<>>
    /\ UNCHANGED <<logVars, cfgVars, resVars, interrupted, recogVars, reads,
                   data, trVars, spVars, cycles>>

----------------------------------------------------------------------------
(* transcribe, lines 82-104 *)

\* What the transcription service may answer.
RawTexts == {<<" ">>, <<"x", " ", "y">>, <<" ", "x", " ", "y", " ">>}

\* Lines 82-91: the temporary file is created and the WAV written.
TranscribeWrite ==
    /\ pc = "transcribe_write"
    /\ tempfile' = "exists"
    /\ pc' = "transcribe_call"
    /\ UNCHANGED <<logVars, cfgVars, resVars, excVars, recogVars, reads,
                   recVars, transcript, text, spVars, cycles>>

\* Lines 93-101: the file is opened and the service called.
TranscribeCall ==
    /\ pc = "transcribe_call"
    /\ transcript' \in RawTexts
    /\ calls' = Called("transcription")
    /\ pc' = "transcribe_finish"
    /\ UNCHANGED <<fed, captured, produced, consumed, notice, cfgVars,
                   resVars, excVars, recogVars, reads, recVars, tempfile,
                   text, spVars, cycles>>

\* Lines 103-104: the only os.unlink of the function, then the return.
TranscribeFinish ==
    /\ pc = "transcribe_finish"
    /\ tempfile' = "removed"
    /\ text' = Strip(transcript)
    /\ produced' = Append(produced, Strip(transcript))
    /\ transcript' = <<>>
    /\ pc' = AfterCall("TRANSCRIBING")
    /\ UNCHANGED <<calls, fed, captured, consumed, notice, cfgVars, resVars,
                   excVars, recogVars, reads, recVars, spVars, cycles>>

\* A statement of transcribe raises: the temporary file cannot be created
\* (no file is left), or the WAV write, the open, the service call or the
\* unlink fails (the file is there).  No handler removes the file.
TranscribeFail ==
    /\ pc \in TranscribePcs
    /\ RaiseInLoop("Exception")
    /\ IF pc = "transcribe_write"
       THEN tempfile' \in {"none", "exists"}
       ELSE tempfile' = tempfile
    /\ transcript' = <<>>
    /\ \/ calls' = calls
       \/ \* it is the service call that raises
          /\ pc = "transcribe_call"
          /\ calls' = Called("transcription")
    /\ UNCHANGED <<fed, captured, produced, consumed, notice, cfgVars,
                   resVars, interrupted, recogVars, reads, recVars, text,
                   spVars, cycles>>

----------------------------------------------------------------------------
(* search_and_play, lines 35-66 *)

\* results["tracks"]["items"]: the uris of the tracks found.
SearchResults == {<<>>, <<"uri2", "uri1">>}

\* sp.devices(): None, or the ids of the devices listed.
DeviceResponses ==
    {[none |-> TRUE, devices |-> <<>>]} \cup
    {[none |-> FALSE, devices |-> ds] : ds \in {<<>>, <<"dev2", "dev1">>}}

QueryIsRawTranscript == transcript

\* Line 167: search_and_play(spotify_client, text)
QueryArg == text

LastResult(items) == items[Len(items)]

\* Line 49: results["tracks"]["items"][0]
TopResult(items) == items[1]

\* Line 53: devices["devices"][0]["id"]
FirstDevice(ds) == ds[1]

PlaysRightAfterSearch == "start_playback"

\* Lines 48-50: with a track found, the devices are enumerated next.
AfterTrackFound == "devices"

\* Line 52: devices and devices["devices"]
HasDevice(d) == ~d.none /\ d.devices # <<>>

\* Line 56
PlayingReturn == "True"

NoDeviceReturnsNone == "None"

\* Line 59
NoDeviceReturn == "False"

\* Line 62
NoResultReturn == "False"

\* Line 66
ErrorReturn == "False"

StopOnFailure(val) == IF val = "True" THEN AfterCall("EXECUTING") ELSE "finally"

\* Line 167: main drops what search_and_play returns; the loop goes on.
AfterResult(val) == AfterCall("EXECUTING")

\* search_and_play returns val to main.
Return(val, how) ==
    /\ result' = val
    /\ outcome' = how
    /\ track' = ""
    /\ device_id' = ""
    /\ cycles' = cycles + 1
    /\ pc' = AfterResult(val)

\* Lines 47-48, 60-62.  The call begins here, with main's text as query:
\* nothing is played and nothing returned yet.
Search ==
    /\ pc = "search"
    /\ consumed' = Append(consumed, QueryArg)
    /\ calls' = Called("search")
    /\ played' = <<>>
    /\ devices' = NotAsked
    /\ \E items \in SearchResults :
          /\ results' = items
          /\ IF items # <<>>
             THEN /\ track' = TopResult(items)
                  /\ pc' = AfterTrackFound
                  /\ outcome' = "none"
                  /\ result' = "unset"
                  /\ UNCHANGED <<device_id, cycles>>
             ELSE Return(NoResultReturn, "no_match")
    /\ UNCHANGED <<fed, captured, produced, notice, cfgVars, resVars, excVars,
                   recogVars, reads, recVars, trVars>>

\* Lines 50-53, 57-59
Devices ==
    /\ pc = "devices"
    /\ calls' = Called("devices")
    /\ \E d \in DeviceResponses :
          /\ devices' = d
          /\ IF HasDevice(d)
             THEN /\ device_id' = FirstDevice(d.devices)
                  /\ pc' = "start_playback"
                  /\ UNCHANGED <<track, outcome, result, cycles>>
             ELSE Return(NoDeviceReturn, "no_device")
    /\ UNCHANGED <<fed, captured, produced, consumed, notice, cfgVars,
                   resVars, excVars, recogVars, reads, recVars, trVars,
                   results, played>>

\* Lines 54-56
StartPlayback ==
    /\ pc = "start_playback"
    /\ calls' = Called("start_playback")
    /\ played' = Append(played, [uri |-> track, device |-> device_id])
    /\ Return(PlayingReturn, "played")
    /\ UNCHANGED <<fed, captured, produced, consumed, notice, cfgVars,
                   resVars, excVars, recogVars, reads, recVars, trVars,
                   results, devices>>

\* e is raised inside the try block of lines 46-66.
RaiseInSearchAndPlay(e) ==
    IF SearchAndPlayCatches(e)
    THEN /\ Return(ErrorReturn, "service_error")
         /\ UNCHANGED <<exc, raisedIn, failedAt>>
    ELSE /\ RaiseInLoop(e)
         /\ track' = ""
         /\ device_id' = ""
         /\ UNCHANGED <<outcome, result, cycles>>

\* The service call the function is at raises (or a lookup in what it
\* answered does).
ServiceFail ==
    /\ pc \in ExecutePcs
    /\ RaiseInSearchAndPlay("Exception")
    /\ calls' = Called(pc)
    /\ IF pc = "search"
       THEN /\ consumed' = Append(consumed, QueryArg)
            /\ results' = <<>>
            /\ devices' = NotAsked
            /\ played' = <<>>
       ELSE /\ UNCHANGED <<consumed, results, devices>>
            /\ \/ played' = played
               \/ \* start_playback succeeded and the print of line 55 raises
                  /\ pc = "start_playback"
                  /\ played' = Append(played, [uri |-> track, device |-> device_id])
    /\ UNCHANGED <<fed, captured, produced, notice, cfgVars, resVars,
                   interrupted, recogVars, reads, recVars, trVars>>

----------------------------------------------------------------------------
(* The external interrupt *)

\* KeyboardInterrupt is raised at the statement the loop is executing.
Interrupt ==
    /\ pc \in LoopPcs
    /\ interrupted' = TRUE
    /\ IF pc \in ExecutePcs
       THEN RaiseInSearchAndPlay("KeyboardInterrupt")
       ELSE /\ RaiseInLoop("KeyboardInterrupt")
            /\ UNCHANGED <<track, device_id, outcome, result, cycles>>
    /\ frames' = <<>>
    /\ transcript' = <<>>
    /\ UNCHANGED <<logVars, cfgVars, resVars, recogVars, reads, data,
                   tempfile, text, results, devices, played>>

----------------------------------------------------------------------------

Next ==
    \/ CheckModel
    \/ InitSpotify
    \/ SetupStep
    \/ InitAudio
    \/ OpenStream
    \/ SetupRaise
    \/ ListenFrame
    \/ ListenFail
    \/ RecordRead
    \/ RecordFail
    \/ TranscribeWrite
    \/ TranscribeCall
    \/ TranscribeFinish
    \/ TranscribeFail
    \/ Search
    \/ Devices
    \/ StartPlayback
    \/ ServiceFail
    \/ Interrupt
    \/ Handler
    \/ FinallyStep

Spec == Init /\ [][Next]_vars

\* The interpreter runs the handler and the finally block to their end: none
\* of their statements waits for the environment.
FairSpec == Spec /\ WF_vars(Handler) /\ WF_vars(FinallyStep)

----------------------------------------------------------------------------
(* record_phrase on its own: called on an open stream with each duration *)

RecordInit ==
    /\ pc = "record"
    /\ WAKE_WORD \in WakeWords
    /\ seconds \in 1..MaxSeconds
    /\ stream = "open"
    /\ audio = "up"
    /\ teardown = [op \in TeardownOps |-> 0]
    /\ fin = 1
    /\ exc = "none"
    /\ raisedIn = "none"
    /\ failedAt = "none"
    /\ interrupted = FALSE
    /\ partial = 0
    /\ heard = NoFrame
    /\ waited = 0
    /\ reads = 0
    /\ frames = <<>>
    /\ data = <<>>
    /\ tempfile = "none"
    /\ transcript = <<>>
    /\ text = <<>>
    /\ results = <<>>
    /\ track = ""
    /\ devices = NotAsked
    /\ device_id = ""
    /\ played = <<>>
    /\ outcome = "none"
    /\ result = "unset"
    /\ cycles = 0
    /\ calls = NoCalls
    /\ fed = {}
    /\ captured = {}
    /\ produced = <<>>
    /\ consumed = <<>>
    /\ notice = "none"

RecordNext == RecordRead \/ RecordFail

RecordSpec == RecordInit /\ [][RecordNext]_vars

----------------------------------------------------------------------------
(* Properties *)

LoopStages == {"LISTENING", "RECORDING", "TRANSCRIBING", "EXECUTING"}

\* The order of the stages within a cycle, and from one cycle to the next.
StageOrder == {<<"LISTENING", "RECORDING">>, <<"RECORDING", "TRANSCRIBING">>,
               <<"TRANSCRIBING", "EXECUTING">>, <<"EXECUTING", "LISTENING">>}

\* C1: the stages of the loop alternate strictly.  Whenever main passes from
\* one stage of the loop to another, it is to the next stage of the order
\* detect, record, transcribe, execute, detect, and the stage it leaves is
\* complete: recording starts on a frame on which the detector returned,
\* transcription starts with the whole recorded buffer and no read after it,
\* the executor starts after transcribe removed its file and returned, and
\* detection starts again when the executor has returned.  The loop is
\* entered at detection.
C1_StrictAlternation ==
    [][LET s == Stage(pc)
           t == Stage(pc') IN
       /\ (s \in LoopStages /\ t \in LoopStages /\ s # t) =>
             /\ <<s, t>> \in StageOrder
             /\ t = "RECORDING" => heard'.returned /\ frames' = <<>>
             /\ t = "TRANSCRIBING" =>
                   /\ frames' = <<>>
                   /\ Len(data') = 20
                   /\ data'[Len(data')] = reads'
             /\ t = "EXECUTING" => tempfile' = "removed" /\ transcript' = <<>>
             /\ t = "LISTENING" => result' # "unset" /\ cycles' = cycles + 1
       /\ (s = "INIT" /\ t \in LoopStages) => t = "LISTENING"
      ]_vars

\* C1 witness: a second cycle has reached recording.
C1_Witness == cycles >= 1 /\ pc = "record" /\ Len(frames) >= 1

\* C2: after an interrupt that arrived in LISTENING, stop_stream, close and
\* terminate are never called twice, and when main has exited each has been
\* called once, the stream is closed and the audio subsystem terminated.
C2_InterruptWhileListening ==
    (interrupted /\ raisedIn = "LISTENING") =>
        /\ \A op \in TeardownOps : teardown[op] <= 1
        /\ pc = "exited" =>
              /\ \A op \in TeardownOps : teardown[op] = 1
              /\ stream = "closed"
              /\ audio = "terminated"

\* C2 witness: main has exited after an interrupt in LISTENING.
C2_Witness == pc = "exited" /\ interrupted /\ raisedIn = "LISTENING"

\* C3: whenever main has exited from the loop, by an interrupt or by an
\* exception that nothing caught, the stream has been stopped and closed and
\* the capture subsystem terminated.
C3_StreamClosedOnEveryExit ==
    (pc = "exited" /\ raisedIn \in LoopStages) =>
        /\ teardown["stop_stream"] >= 1
        /\ stream = "closed"
        /\ audio = "terminated"

\* C3 witness: main has exited on an exception raised in transcribe.
C3_Witness == pc = "exited" /\ exc = "Exception" /\ raisedIn = "TRANSCRIBING"

\* C4: an interrupt that arrives in any stage of the loop takes main to
\* SHUTTING_DOWN at once, without completing a cycle; from there main only
\* goes on to TERMINATED; and it does get there, with the stream closed and
\* the audio subsystem terminated.
C4_InterruptShutsDown ==
    /\ [][(~interrupted /\ interrupted' /\ Stage(pc) \in LoopStages) =>
             (Stage(pc') = "SHUTTING_DOWN" /\ cycles' = cycles)]_vars
    /\ [][(interrupted /\ Stage(pc) = "SHUTTING_DOWN") =>
             Stage(pc') \in {"SHUTTING_DOWN", "TERMINATED"}]_vars
    /\ (interrupted /\ raisedIn \in LoopStages) ~>
          (pc = "exited" /\ stream = "closed" /\ audio = "terminated")

\* C4 witness: main has exited after an interrupt that arrived in EXECUTING.
C4_Witness == pc = "exited" /\ interrupted /\ raisedIn = "EXECUTING"

\* C5: the detector's last iteration returned if and only if it saw a
\* finalized utterance that contains the wake word when case is ignored.
C5_TriggersIffWakeWordIgnoringCase ==
    heard.returned <=>
        (heard.final /\ Contains(LowerStr(WAKE_WORD), LowerStr(heard.text)))

\* C6: an iteration of the detector that left a partial hypothesis of more
\* than 100 characters reset the recogniser and did not return; the detector
\* returns only on a finalized utterance that contains the wake word.
C6_OverlongPartialResets ==
    /\ heard.hyp > 100 => (heard.reset /\ partial = 0 /\ ~heard.returned)
    /\ heard.returned => (heard.final /\ Contains(WAKE_WORD, LowerStr(heard.text)))

\* C6 witness: the last frame left a partial of more than 100 characters.
C6_Witness == heard.hyp > 100 /\ pc = "listen"

C8_TempFileRemoved ==
    (Stage(pc) # "TRANSCRIBING" /\ ~interrupted) => tempfile # "exists"

\* C9: an exception raised during recording or transcription does not take
\* main out of the loop.
C9_CycleErrorsCaught ==
    ~(/\ exc = "Exception"
      /\ raisedIn \in {"RECORDING", "TRANSCRIBING"}
      /\ Stage(pc) \in {"SHUTTING_DOWN", "TERMINATED"})

\* C10: search_and_play returns a boolean on every path, False on each of
\* its failures (no track, no device, a service error), and True only when
\* start_playback has completed.
C10_SingleFailureSignal ==
    /\ result \in {"unset", "True", "False"}
    /\ (result = "unset") <=> (outcome = "none")
    /\ outcome \in {"no_match", "no_device", "service_error"} => result = "False"
    /\ result = "True" => (outcome = "played" /\ played # <<>>)
    /\ outcome = "played" => result = "True"

\* C10 witness: search_and_play has returned False for want of a device.
C10_Witness == outcome = "no_device" /\ result = "False" /\ pc = "listen"

\* C11: when search_and_play returns for want of a device it returns False
\* and has not called start_playback; start_playback is reached or called
\* only when the search answered a track and sp.devices answered a list with
\* a device in it.
C11_NoPlaybackWithoutDevice ==
    /\ outcome = "no_device" =>
          /\ result = "False"
          /\ results # <<>>
          /\ ~HasDevice(devices)
          /\ played = <<>>
          /\ calls["start_playback"] = 0
    /\ (pc = "start_playback" \/ calls["start_playback"] > 0 \/ played # <<>>) =>
          /\ results # <<>>
          /\ ~devices.none
          /\ devices.devices # <<>>

\* C11 witness: a track was found, the device list came back empty and the
\* call has returned.
C11_Witness ==
    /\ pc = "listen"
    /\ outcome = "no_device"
    /\ results # <<>>
    /\ devices = [none |-> FALSE, devices |-> <<>>]

\* C12: an exception raised by sp.search, sp.devices or sp.start_playback
\* never reaches main: search_and_play takes its error path (the message of
\* line 65) and returns False, and unless an interrupt arrives the executor
\* stage is only left for the next LISTENING.
C12_ServiceErrorsStayInside ==
    /\ [](~(exc = "Exception" /\ raisedIn = "EXECUTING"))
    /\ [](outcome = "service_error" => result = "False")
    /\ [][(Stage(pc) = "EXECUTING" /\ ~interrupted') =>
             Stage(pc') \in {"EXECUTING", "LISTENING"}]_vars

\* C12 witness: start_playback failed, and the loop has gone on to read a
\* frame of the next cycle.
C12_Witness ==
    /\ pc = "listen"
    /\ outcome = "service_error"
    /\ calls["start_playback"] = 1
    /\ waited >= 1

\* C13: the success path, end to end.  When search_and_play has just
\* returned from a call in which the search answered a track, a device was
\* listed and no service call raised, then: the detector had returned on a
\* finalized utterance containing the wake word, the recorder had captured
\* the 5 second window (160000 bytes), the query was the text transcribe
\* returned in this cycle, start_playback was called once, with the uri of
\* the first track of the search on the id of the first device listed, and
\* the call returned True.
C13_SuccessPath ==
    /\ [][(pc = "listen" /\ pc' # "listen" /\ exc' = "none") =>
             /\ pc' = "record"
             /\ heard'.returned
             /\ heard'.final
             /\ Contains(WAKE_WORD, LowerStr(heard'.text))]_vars
    /\ []((/\ pc = "listen" /\ waited = 0 /\ cycles >= 1
           /\ results # <<>>
           /\ HasDevice(devices)
           /\ outcome # "service_error") =>
              /\ ByteLen(data) = 160000
              /\ Len(produced) = cycles /\ Len(consumed) = cycles
              /\ consumed[cycles] = text /\ produced[cycles] = text
              /\ calls["start_playback"] = 1
              /\ played = <<[uri |-> results[1],
                             device |-> devices.devices[1]]>>
              /\ outcome = "played"
              /\ result = "True")

\* C13 witness: a cycle has just ended with playback started on the search's
\* first track and the first device.
C13_Witness ==
    /\ pc = "listen" /\ waited = 0 /\ cycles >= 1
    /\ outcome = "played"
    /\ played = <<[uri |-> "uri2", device |-> "dev2"]>>
    /\ text = <<"x", " ", "y">>

C15_FailureContinuesLoop ==
    /\ [][(result' # result /\ result' \in {"True", "False"}) =>
             /\ outcome' \in {"played", "no_match", "no_device", "service_error"}
             /\ pc' = "listen"
             /\ pc' = AfterCall("EXECUTING")
             /\ stream' = "open"
             /\ exc' = "none"
             /\ waited' = 0
             /\ cycles' = cycles + 1]_vars
    /\ [](outcome \in {"no_match", "no_device"} =>
             (result = "False" /\ played = <<>>))

\* C15 witness: the first cycle found no track and main listens again.
C15_Witness ==
    /\ pc = "listen"
    /\ outcome = "no_match"
    /\ result = "False"
    /\ results = <<>>
    /\ waited >= 1

\* C16 as stated: whenever the stream is open in a stage of the loop, exactly
\* one of the wake-word detector and the phrase recorder holds it.
C16_ExactlyOneOwner ==
    (stream = "open" /\ Stage(pc) \in LoopStages) =>
        Cardinality(StreamHolders(pc)) = 1

\* C16, amended: while the stream is open at most one of the two holds it,
\* the detector throughout LISTENING and the recorder throughout RECORDING,
\* and nobody in any other stage; every read of the stream is made by the
\* holder, a detector read being fed to the recogniser and a recorder read
\* being captured.
C16_AtMostOneOwner ==
    /\ [](stream = "open" =>
             /\ Cardinality(StreamHolders(pc)) <= 1
             /\ Stage(pc) = "LISTENING" => StreamHolders(pc) = {"listen_for_wake_word"}
             /\ Stage(pc) = "RECORDING" => StreamHolders(pc) = {"record_phrase"}
             /\ Stage(pc) \notin {"LISTENING", "RECORDING"} => StreamHolders(pc) = {})
    /\ [][reads' # reads =>
             /\ stream = "open"
             /\ \/ /\ StreamHolders(pc) = {"listen_for_wake_word"}
                   /\ fed' = fed \cup {reads'}
                   /\ captured' = captured
                \/ /\ StreamHolders(pc) = {"record_phrase"}
                   /\ captured' = captured \cup {reads'}
                   /\ fed' = fed]_vars

\* C16 witness: the stream is open with frames read from it, and neither the
\* detector nor the recorder holds it while the transcription call is made.
C16_Witness ==
    /\ stream = "open"
    /\ pc = "transcribe_call"
    /\ StreamHolders(pc) = {}
    /\ fed # {}
    /\ captured # {}

\* C17: every frame read from the stream went to exactly one consumer: it
\* was either fed to the recogniser by listen_for_wake_word or appended to
\* the command audio by record_phrase, never both.  The command audio is made
\* of consecutive frames, none of which was fed to the recogniser, and the
\* frame read just before its first one, the frame on which the detector
\* returned, was fed to the recogniser and is not in it.
C17_EachFrameHasOneConsumer ==
    /\ [](/\ fed \cap captured = {}
          /\ fed \cup captured = 1..reads
          /\ Range(frames) \subseteq captured
          /\ Range(data) \subseteq captured
          /\ Range(frames) \cap fed = {}
          /\ Range(data) \cap fed = {})
    /\ [](\A fs \in {frames, data} :
             /\ \A i \in 2..Len(fs) : fs[i] = fs[i - 1] + 1
             /\ fs # <<>> => (fs[1] - 1 \in fed /\ fs[1] - 1 \notin Range(fs)))
    /\ [][(pc = "listen" /\ pc' = "record") =>
             /\ heard'.returned
             /\ reads' \in fed'
             /\ reads' \notin captured'
             /\ frames' = <<>>]_vars

\* C17 witness: in the second cycle the command audio was recorded in full,
\* right after the frame on which the detector returned.
C17_Witness ==
    /\ pc = "transcribe_write"
    /\ cycles = 1
    /\ Len(data) = FrameCount(seconds)
    /\ data[1] - 1 \in fed
    /\ data[1] > FrameCount(seconds)

\* C18: nothing is retried.  Between one return of the detector and the
\* next, each hosted service is called at most once, and in the order
\* transcription, search, devices, playback; when search_and_play returns,
\* completing the cycle, transcription and search were each called exactly
\* once in it; and over the whole run there is one search per cycle, so that
\* no failed call is made again later.
C18_NoRetries ==
    /\ [](/\ \A s \in Services : calls[s] <= 1
          /\ calls["search"] <= calls["transcription"]
          /\ calls["devices"] <= calls["search"]
          /\ calls["start_playback"] <= calls["devices"]
          /\ Len(consumed) \in {cycles, cycles + 1}
          /\ Len(consumed) = cycles + 1 => calls["search"] = 1)
    /\ [][cycles' # cycles =>
             /\ cycles' = cycles + 1
             /\ calls'["transcription"] = 1
             /\ calls'["search"] = 1
             /\ Len(consumed') = cycles'
             /\ Len(produced') = cycles']_vars
    /\ [][\A s \in Services : calls'[s] > calls[s] => calls[s] = 0]_vars

\* C18 witness: the second cycle is complete after a search that failed in
\* the first, with one call of transcription and one of search in it.
C18_Witness ==
    /\ pc = "listen"
    /\ cycles = 2
    /\ Len(consumed) = 2
    /\ calls["transcription"] = 1
    /\ calls["search"] = 1
    /\ calls["devices"] = 0
    /\ outcome = "service_error"

\* C19: the texts passed to search_and_play are, in order, the texts returned
\* by transcribe, each passed once.  A text returned is passed on by the next
\* call of search_and_play, before transcribe returns another; the only text
\* not passed on is one after whose return main was interrupted before the
\* call.  search_and_play is never called without a text just returned, and
\* an empty text is passed on like any other.
C19_TranscriptConsumedOnce ==
    /\ [](/\ Len(consumed) <= Len(produced)
          /\ Len(produced) <= Len(consumed) + 1
          /\ \A i \in 1..Len(consumed) : consumed[i] = produced[i])
    /\ [](Len(produced) > Len(consumed) =>
             \/ pc = "search"
             \/ failedAt = "search" /\ interrupted)
    /\ [][consumed' # consumed =>
             /\ pc = "search"
             /\ Len(produced) = Len(consumed) + 1
             /\ consumed' = Append(consumed, produced[Len(produced)])
             /\ produced' = produced]_vars
    /\ [][produced' # produced =>
             /\ Len(produced) = Len(consumed)
             /\ produced' = Append(produced, text')
             /\ pc' = "search"
             /\ consumed' = consumed]_vars

\* C19 witness: two cycles are complete; the first passed on a text with
\* words, the second an empty one.
C19_Witness ==
    /\ pc = "listen"
    /\ cycles = 2
    /\ produced = <<(<<"x", " ", "y">>), <<>>>>
    /\ consumed = produced

\* C20: when main has exited, a stream it opened is not left open: either no
\* stream was opened, or it has been closed and the capture subsystem
\* terminated, wherever after the open the exit came from.
C20_OpenedStreamClosedOnExit ==
    pc = "exited" =>
        \/ stream = "none"
        \/ stream = "closed" /\ audio = "terminated"

====
